---------------------------- MODULE Spec2Model ----------------------------
(***************************************************************************)
(* A model of _stbt/power.py: the URI resolver, the config resolver, the   *)
(* SNMP integer accessor's constructor, the ATEN confirmation poll, the    *)
(* Aviosys 8800 Pro adapter over its fake serial device, and the file      *)
(* outlet.                                                                 *)
(*                                                                         *)
(* Strings are sequences of atoms.  An atom is a one-character string;     *)
(* the literal fragments of the error-message format strings are kept as   *)
(* single multi-character atoms, so that "the message contains this        *)
(* section name" is a statement about sequences.                           *)
(***************************************************************************)
EXTENDS Integers, Sequences, FiniteSets, TLC

VARIABLES
    uri, uri_result,
    config, cfg_result, cfg_lookups,
    address, target,
    aten_pc, power, new_state, polls, sets, last_get, aten_result,
    is_on, inbuf, outbuf, av_hist, av_ret,
    file, f_hist, f_ret

uriVars  == <<uri, uri_result>>
cfgVars  == <<config, cfg_result, cfg_lookups>>
snmpVars == <<address, target>>
atenVars == <<aten_pc, power, new_state, polls, sets, last_get, aten_result>>
avVars   == <<is_on, inbuf, outbuf, av_hist, av_ret>>
fileVars == <<file, f_hist, f_ret>>
vars     == <<uriVars, cfgVars, snmpVars, atenVars, avVars, fileVars>>

-----------------------------------------------------------------------------
(* Bounds of the model.                                                     *)

\* the most ':'-separated segments put after a URI keyword
MaxSegs == 3
\* the longest address given to _SnmpInteger
MaxAddrLen == 4
\* the most adapter calls made on one Aviosys adapter / one file outlet
MaxCalls == 4

-----------------------------------------------------------------------------
(* Python values.                                                           *)

\* None, where a string could stand: no string holds this atom
None == <<"<None>">>
\* no call made yet
NotCalled == [cls |-> "<not called>"]

ValueError == [cls |-> "ValueError"]
NameError(name) == [cls |-> "NameError", name |-> name]
ConfigurationError(msg) == [cls |-> "ConfigurationError", msg |-> msg]

Errors == {"ValueError", "NameError", "ConfigurationError"}

UpperChars == <<"A","B","C","D","E","F","G","H","I","J","K","L","M",
                "N","O","P","Q","R","S","T","U","V","W","X","Y","Z">>
LowerChars == <<"a","b","c","d","e","f","g","h","i","j","k","l","m",
                "n","o","p","q","r","s","t","u","v","w","x","y","z">>
Digits == <<"0","1","2","3","4","5","6","7","8","9">>

\* str.lower() on one character
Lower(c) ==
    IF \E i \in DOMAIN UpperChars : UpperChars[i] = c
    THEN LowerChars[CHOOSE i \in DOMAIN UpperChars : UpperChars[i] = c]
    ELSE c

\* str.lower()
LowerStr(s) == [i \in 1..Len(s) |-> Lower(s[i])]

IsDigit(c) == \E i \in DOMAIN Digits : Digits[i] = c
DigitVal(c) == (CHOOSE i \in DOMAIN Digits : Digits[i] = c) - 1

RECURSIVE DigitsVal(_)
DigitsVal(s) ==
    IF s = <<>> THEN 0
    ELSE DigitsVal(SubSeq(s, 1, Len(s) - 1)) * 10 + DigitVal(s[Len(s)])

RECURSIVE Strip(_)
\* str.strip() of the blanks
Strip(s) ==
    IF s = <<>> THEN s
    ELSE IF s[1] = " " THEN Strip(Tail(s))
    ELSE IF s[Len(s)] = " " THEN Strip(SubSeq(s, 1, Len(s) - 1))
    ELSE s

\* int(s): blanks around, an optional sign, then decimal digits; anything
\* else is a ValueError ([ok |-> FALSE])
ParseInt(s) ==
    LET t == Strip(s)
        signed == t # <<>> /\ t[1] \in {"-", "+"}
        d == IF signed THEN Tail(t) ELSE t
    IN  IF d # <<>> /\ \A i \in 1..Len(d) : IsDigit(d[i])
        THEN [ok |-> TRUE,
              val |-> IF signed /\ t[1] = "-" THEN 0 - DigitsVal(d)
                      ELSE DigitsVal(d)]
        ELSE [ok |-> FALSE, val |-> 0]

\* the first index >= from at which sep occurs in s, 0 if none (str.find + 1)
Find(s, sep, from) ==
    LET hits == {i \in from..(Len(s) - Len(sep) + 1) :
                    SubSeq(s, i, i + Len(sep) - 1) = sep}
    IN  IF hits = {} THEN 0
        ELSE CHOOSE i \in hits : \A j \in hits : i <= j

RECURSIVE Split(_, _, _)
\* s.split(sep, maxsplit), sep not empty
Split(s, sep, maxsplit) ==
    LET i == Find(s, sep, 1)
    IN  IF maxsplit = 0 \/ i = 0 THEN <<s>>
        ELSE <<SubSeq(s, 1, i - 1)>>
             \o Split(SubSeq(s, i + Len(sep), Len(s)), sep, maxsplit - 1)

-----------------------------------------------------------------------------
(* _SnmpInteger.__init__ and the outlets' constructors.                     *)

s_161 == <<"1","6","1">>
s_administrator == <<"administrator">>
\* the device _new_aviosys_8800_pro opens when no filename is given
s_dev_ttyACM0 == <<"/dev/ttyACM0">>

\* `address, port = address.split(address, 2)` unpacks exactly two parts
_SnmpInteger(addr, oid, community) ==
    LET hasColon == \E i \in 1..Len(addr) : addr[i] = ":"
        parts == IF hasColon THEN Split(addr, addr, 2) ELSE <<addr, s_161>>
        port == IF Len(parts) = 2 THEN ParseInt(parts[2]) ELSE [ok |-> FALSE, val |-> 0]
    IN  IF Len(parts) # 2 \/ ~port.ok THEN ValueError
        ELSE [cls |-> "SnmpInteger", oid |-> oid, community |-> community,
              host |-> parts[1], port |-> port.val]

_NoOutlet == [cls |-> "NoOutlet"]

_FileOutlet(filename) == [cls |-> "FileOutlet", filename |-> filename]

\* uri = '%s:%s:%s' % (model, hostname, outlet)
_ShellOutlet(model, hostname, outlet) ==
    [cls |-> "ShellOutlet",
     uri |-> model \o <<":">> \o hostname \o <<":">> \o outlet]

\* the OID is the vendor prefix followed by `last`
_ATEN_PE6108G(addr, outlet) ==
    LET n == ParseInt(outlet)
        outlet_offset == IF n.val <= 8 THEN 1 ELSE 2
        snmp == _SnmpInteger(addr,
                    [prefix |-> "1.3.6.1.4.1.21317.1.3.2.2.2.2",
                     last |-> n.val + outlet_offset, tail |-> ".0"],
                    s_administrator)
    IN  IF ~n.ok THEN ValueError
        ELSE IF snmp.cls \in Errors THEN snmp
        ELSE [cls |-> "ATEN_PE6108G", snmp |-> snmp]

_RittalSnmpPower(addr, outlet_no, community) ==
    LET n == ParseInt(outlet_no)
        index == n.val - 1
        snmp == _SnmpInteger(addr,
                    [prefix |-> "1.3.6.1.4.1.2606.7.4.2.2.1.11.1",
                     last |-> 52 + index * 7, tail |-> ""],
                    community)
    IN  IF ~n.ok \/ index < 0 THEN ValueError
        ELSE IF snmp.cls \in Errors THEN snmp
        ELSE [cls |-> "RittalSnmpPower", snmp |-> snmp]

_new_aviosys_8800_pro(filename) ==
    [cls |-> "Aviosys8800Pro",
     device |-> IF filename = None THEN s_dev_ttyACM0 ELSE filename]

Kasa(hostname) == [cls |-> "Kasa", hostname |-> hostname]

-----------------------------------------------------------------------------
(* re.match(regex, uri, re.VERBOSE | re.IGNORECASE): a match of the whole   *)
(* pattern at the START of the string; what follows the match is not        *)
(* looked at.  The patterns hold no blank and no '#' outside a character    *)
(* class, so re.VERBOSE changes nothing.                                    *)

\* pattern elements
Lit(text) == [kind |-> "lit", text |-> text]
\* (?P<name>[^...]+): one or more characters outside excl, greedy
Cls(name, excl) == [kind |-> "cls", name |-> name, excl |-> excl]
\* (?P<name>a|b|c)
Alt(name, alts) == [kind |-> "alt", name |-> name, alts |-> alts]
\* (...)? around a pattern whose named groups are `names`
Opt(inner, names) == [kind |-> "opt", inner |-> inner, names |-> names]

NoMatch == [matched |-> FALSE]

\* a comparison that forgets re.IGNORECASE
LitAtCaseSensitive(text, s, i) ==
    /\ i + Len(text) - 1 <= Len(s)
    /\ \A k \in 1..Len(text) : s[i + k - 1] = text[k]

\* re.IGNORECASE: the literal text stands at s[i..], whatever the case
LitAt(text, s, i) ==
    /\ i + Len(text) - 1 <= Len(s)
    /\ \A k \in 1..Len(text) : Lower(s[i + k - 1]) = Lower(text[k])

\* the length of the longest run of characters outside excl at s[i..]
RunLen(s, i, excl) ==
    LET stops == {j \in i..Len(s) : s[j] \in excl}
    IN  IF stops = {} THEN Len(s) - i + 1
        ELSE (CHOOSE j \in stops : \A k \in stops : j <= k) - i

Max(S) == CHOOSE x \in S : \A y \in S : y <= x
Min(S) == CHOOSE x \in S : \A y \in S : x <= y

RECURSIVE Match(_, _, _)
\* the backtracking match of the pattern elements pat at s[i..]: NoMatch, or
\* the named groups (a group that took no part is None)
Match(pat, s, i) ==
    IF pat = <<>> THEN [matched |-> TRUE, groups |-> <<>>]
    ELSE
    LET e == Head(pat)
        rest == Tail(pat)
    IN  CASE e.kind = "lit" ->
               IF LitAt(e.text, s, i) THEN Match(rest, s, i + Len(e.text))
               ELSE NoMatch
          [] e.kind = "cls" ->
               LET ok == {n \in 1..RunLen(s, i, e.excl) :
                             Match(rest, s, i + n).matched}
               IN  IF ok = {} THEN NoMatch
                   ELSE LET n == Max(ok)
                            r == Match(rest, s, i + n)
                        IN  [matched |-> TRUE,
                             groups |-> (e.name :> SubSeq(s, i, i + n - 1))
                                        @@ r.groups]
          [] e.kind = "alt" ->
               LET ok == {a \in DOMAIN e.alts :
                             /\ LitAt(e.alts[a], s, i)
                             /\ Match(rest, s, i + Len(e.alts[a])).matched}
               IN  IF ok = {} THEN NoMatch
                   ELSE LET a == Min(ok)
                            r == Match(rest, s, i + Len(e.alts[a]))
                        IN  [matched |-> TRUE,
                             groups |-> (e.name :> SubSeq(s, i, i + Len(e.alts[a]) - 1))
                                        @@ r.groups]
          [] e.kind = "opt" ->
               LET with == Match(e.inner \o rest, s, i)
                   without == Match(rest, s, i)
               IN  IF with.matched THEN with
                   ELSE IF without.matched
                   THEN [matched |-> TRUE,
                         groups |-> [n \in e.names |-> None] @@ without.groups]
                   ELSE NoMatch

-----------------------------------------------------------------------------
(* uri_to_power_outlet                                                      *)

s_none == <<"n","o","n","e">>
s_file == <<"f","i","l","e">>
s_aten == <<"a","t","e","n">>
s_rittal == <<"r","i","t","t","a","l">>
s_pdu == <<"p","d","u">>
s_ipp == <<"i","p","p">>
s_testfallback == <<"t","e","s","t","f","a","l","l","b","a","c","k">>
s_aviosys_8800_pro ==
    <<"a","v","i","o","s","y","s","-","8","8","0","0","-","p","r","o">>
s_kasa == <<"k","a","s","a">>
s_rittal_snmp == <<"r","i","t","t","a","l","-","s","n","m","p">>
Colon == <<":">>

remotes == <<
    [regex |-> <<Lit(s_none)>>, factory |-> "_NoOutlet"],
    [regex |-> <<Lit(s_file \o Colon), Cls("filename", {":"})>>,
     factory |-> "_FileOutlet"],
    [regex |-> <<Lit(s_aten \o Colon), Cls("address", {":", " "}),
                 Lit(Colon), Cls("outlet", {":", " "})>>,
     factory |-> "_ATEN_PE6108G"],
    [regex |-> <<Lit(s_rittal \o Colon), Cls("address", {":", " "}),
                 Lit(Colon), Cls("outlet_no", {":", " "}),
                 Lit(Colon), Cls("community", {":", " "})>>,
     factory |-> "_RittalSnmpPower"],
    [regex |-> <<Alt("model", <<s_pdu, s_ipp, s_testfallback>>),
                 Lit(Colon), Cls("hostname", {":", " "}),
                 Lit(Colon), Cls("outlet", {":", " "})>>,
     factory |-> "_ShellOutlet"],
    [regex |-> <<Lit(s_aviosys_8800_pro),
                 Opt(<<Lit(Colon), Cls("filename", {":"})>>, {"filename"})>>,
     factory |-> "_new_aviosys_8800_pro"],
    [regex |-> <<Lit(s_kasa \o Colon), Cls("hostname", {":"})>>,
     factory |-> "Kasa"] >>

\* factory(**m.groupdict())
Construct(factory, g) ==
    CASE factory = "_NoOutlet" -> _NoOutlet
      [] factory = "_FileOutlet" -> _FileOutlet(g["filename"])
      [] factory = "_ATEN_PE6108G" -> _ATEN_PE6108G(g["address"], g["outlet"])
      [] factory = "_RittalSnmpPower" ->
            _RittalSnmpPower(g["address"], g["outlet_no"], g["community"])
      [] factory = "_ShellOutlet" ->
            _ShellOutlet(g["model"], g["hostname"], g["outlet"])
      [] factory = "_new_aviosys_8800_pro" -> _new_aviosys_8800_pro(g["filename"])
      [] factory = "Kasa" -> Kasa(g["hostname"])

InvalidUriMsg(u) == <<"Invalid power outlet URI: \"">> \o u \o <<"\"">>

uri_to_power_outlet(u) ==
    LET hits == {k \in DOMAIN remotes : Match(remotes[k].regex, u, 1).matched}
    IN  IF hits = {} THEN ConfigurationError(InvalidUriMsg(u))
        ELSE LET k == Min(hits)
             IN  Construct(remotes[k].factory, Match(remotes[k].regex, u, 1).groups)

-----------------------------------------------------------------------------
(* The states of the parts a specification leaves alone.                    *)

IdleUri == uri = <<>> /\ uri_result = NotCalled
IdleCfg == config = <<>> /\ cfg_result = NotCalled /\ cfg_lookups = <<>>
IdleSnmp == address = <<>> /\ target = NotCalled
IdleAten ==
    /\ aten_pc = "idle" /\ power = FALSE /\ new_state = 0 /\ polls = 0
    /\ sets = 0 /\ last_get = 0 /\ aten_result = "none"
IdleAv ==
    /\ is_on = FALSE /\ inbuf = <<>> /\ outbuf = <<>>
    /\ av_hist = <<>> /\ av_ret = "none"
IdleFile == file = None /\ f_hist = <<>> /\ f_ret = "none"

-----------------------------------------------------------------------------
(* SpecUri: uri_to_power_outlet applied to one string.                      *)

Keywords ==
    {s_none, <<"N","o","n","E">>, s_file, <<"F","I","L","E">>, s_aten,
     <<"A","t","e","n">>, s_rittal, s_pdu, <<"P","D","U">>, <<"I","p","p">>,
     s_testfallback, s_aviosys_8800_pro, s_kasa, <<"K","a","s","a">>,
     <<"x","y">>, <<>>}
Extras == {<<>>, <<"x">>}
Segs == {<<>>, <<"h","1">>, <<"8">>, <<"9">>, <<"0">>, <<"a"," ","b">>}

RECURSIVE TailsOf(_)
\* the strings ':'seg':'seg... of m segments
TailsOf(m) ==
    IF m = 0 THEN {<<>>}
    ELSE {t \o Colon \o sg : t \in TailsOf(m - 1), sg \in Segs}

UriInputs ==
    {k \o e \o t : k \in Keywords, e \in Extras,
                   t \in UNION {TailsOf(m) : m \in 0..MaxSegs}}

InitUri ==
    /\ uri \in UriInputs
    /\ uri_result = NotCalled
    /\ IdleCfg /\ IdleSnmp /\ IdleAten /\ IdleAv /\ IdleFile

Resolve ==
    /\ uri_result = NotCalled
    /\ uri_result' = uri_to_power_outlet(uri)
    /\ UNCHANGED <<uri, cfgVars, snmpVars, atenVars, avVars, fileVars>>

NextUri == Resolve

SpecUri == InitUri /\ [][NextUri]_vars

-----------------------------------------------------------------------------
(* The URI grammar, stated on the whole string: the fields are what stands  *)
(* between the colons.                                                      *)

ColonParts(u) == Split(u, Colon, Len(u))
NoBlank(x) == x # <<>> /\ \A i \in 1..Len(x) : x[i] # " "
Keyword(u) == LowerStr(ColonParts(u)[1])
NParts(u) == Len(ColonParts(u))
Part(u, k) == ColonParts(u)[k]

FormNone(u) == LowerStr(u) = s_none
FormFile(u) == NParts(u) = 2 /\ Keyword(u) = s_file /\ Part(u, 2) # <<>>
FormAten(u) ==
    /\ NParts(u) = 3 /\ Keyword(u) = s_aten
    /\ NoBlank(Part(u, 2)) /\ NoBlank(Part(u, 3))
FormRittal(u) ==
    /\ NParts(u) = 4 /\ Keyword(u) = s_rittal
    /\ NoBlank(Part(u, 2)) /\ NoBlank(Part(u, 3)) /\ NoBlank(Part(u, 4))
FormShell(u) ==
    /\ NParts(u) = 3 /\ Keyword(u) \in {s_pdu, s_ipp, s_testfallback}
    /\ NoBlank(Part(u, 2)) /\ NoBlank(Part(u, 3))
FormAviosys(u) ==
    /\ Keyword(u) = s_aviosys_8800_pro
    /\ NParts(u) = 1 \/ (NParts(u) = 2 /\ Part(u, 2) # <<>>)
FormKasa(u) == NParts(u) = 2 /\ Keyword(u) = s_kasa /\ Part(u, 2) # <<>>

AnyForm(u) ==
    \/ FormNone(u) \/ FormFile(u) \/ FormAten(u) \/ FormRittal(u)
    \/ FormShell(u) \/ FormAviosys(u) \/ FormKasa(u)

\* the outlet number int() reads, where it reads one
IsNumber(x) == ParseInt(x).ok
Number(x) == ParseInt(x).val

IsAtenOf(r, u) ==
    /\ r.cls = "ATEN_PE6108G"
    /\ r.snmp.host = Part(u, 2) /\ r.snmp.port = 161
    /\ r.snmp.community = s_administrator
    /\ r.snmp.oid.last = Number(Part(u, 3)) + (IF Number(Part(u, 3)) <= 8 THEN 1 ELSE 2)
IsRittalOf(r, u) ==
    /\ r.cls = "RittalSnmpPower"
    /\ r.snmp.host = Part(u, 2) /\ r.snmp.port = 161
    /\ r.snmp.community = Part(u, 4)
    /\ r.snmp.oid.last = 52 + 7 * (Number(Part(u, 3)) - 1)
IsAviosysOf(r, u) ==
    /\ r.cls = "Aviosys8800Pro"
    /\ r.device = (IF NParts(u) = 1 THEN s_dev_ttyACM0 ELSE Part(u, 2))

\* what the forms without a number in them resolve to
PlainFormsResolve ==
    /\ FormNone(uri) => uri_result = [cls |-> "NoOutlet"]
    /\ FormFile(uri) =>
          uri_result = [cls |-> "FileOutlet", filename |-> Part(uri, 2)]
    /\ FormShell(uri) => uri_result = [cls |-> "ShellOutlet", uri |-> uri]
    /\ FormAviosys(uri) => IsAviosysOf(uri_result, uri)
    /\ FormKasa(uri) => uri_result = [cls |-> "Kasa", hostname |-> Part(uri, 2)]

(* C1, as stated: every string of one of the seven forms resolves to the    *)
(* backend of its form, built from the fields between the colons.           *)
C1_EveryFormResolves ==
    uri_result # NotCalled =>
        /\ PlainFormsResolve
        /\ FormAten(uri) => IsAtenOf(uri_result, uri)
        /\ FormRittal(uri) => IsRittalOf(uri_result, uri)

(* C1, amended: every string of one of the seven forms resolves to the      *)
(* backend of its form, built from the fields between the colons (matched   *)
(* without case, the shell model tag kept as written, the aviosys path      *)
(* absent when none is given), provided the outlet of an aten: URI is an    *)
(* integer literal and the outlet of a rittal: URI an integer literal >= 1; *)
(* otherwise the constructor's ValueError comes out.                        *)
C1_FormsResolve ==
    uri_result # NotCalled =>
        /\ PlainFormsResolve
        /\ FormAten(uri) =>
              IF IsNumber(Part(uri, 3)) THEN IsAtenOf(uri_result, uri)
              ELSE uri_result = ValueError
        /\ FormRittal(uri) =>
              IF IsNumber(Part(uri, 3)) /\ Number(Part(uri, 3)) >= 1
              THEN IsRittalOf(uri_result, uri)
              ELSE uri_result = ValueError

\* an upper-case shell URI resolved, its model tag kept as written
C1_Witness ==
    /\ uri = <<"P","D","U">> \o Colon \o <<"h","1">> \o Colon \o <<"9">>
    /\ uri_result = [cls |-> "ShellOutlet", uri |-> uri]

(* C2: a string that is not, as a whole, of one of the seven forms fails    *)
(* with the ConfigurationError that names it.                               *)
C2_OnlyTheSevenForms ==
    (uri_result # NotCalled /\ ~AnyForm(uri)) =>
        uri_result = ConfigurationError(InvalidUriMsg(uri))

-----------------------------------------------------------------------------
(* config_to_power_outlet.  A config is a function from section names to    *)
(* sections, a section a function from keys to values; config[name] and     *)
(* section[key] raise KeyError outside the domain.                          *)

s_device_under_test == <<"device_under_test">>
\* "power_outlet %s" % pduname
SectionName(pduname) == <<"power_outlet ">> \o pduname
\* %r of a string that holds no quote
Repr(x) == <<"'">> \o x \o <<"'">>

NoSectionMsg(pduname) ==
    <<"Expected to find section \"", "pdu.">> \o pduname
    \o <<"\" in config file because device_under_test.power_outlet == ">>
    \o Repr(pduname) \o <<".  No such section found">>

UnknownTypeMsg(pduname, ty) ==
    pduname \o <<": Unknown power outlet type: \"">> \o ty \o <<"\"">>

MissingKeyMsg(key, pduname) ==
    <<"Failed to find key \"", key, "\" in section [">>
    \o SectionName(pduname) \o <<"] in config file">>

\* section.get(key)
Get(section, key) == IF key \in DOMAIN section THEN section[key] ELSE None

\* lines 83-104: the backend of an existing section.  `pdu` is bound
\* nowhere, so the aten and rittal-snmp branches raise NameError before any
\* key is read.
FromSection(section, pduname) ==
    IF "type" \notin DOMAIN section
    THEN ConfigurationError(MissingKeyMsg("type", pduname))
    ELSE
    LET ty == LowerStr(section["type"])
    IN  CASE ty = s_none -> _NoOutlet
          [] ty = s_file ->
                IF "filename" \in DOMAIN section
                THEN _FileOutlet(section["filename"])
                ELSE ConfigurationError(MissingKeyMsg("filename", pduname))
          [] ty = s_aten -> NameError("pdu")
          [] ty = s_rittal_snmp -> NameError("pdu")
          [] ty = s_aviosys_8800_pro ->
                _new_aviosys_8800_pro(Get(section, "filename"))
          [] ty = s_kasa ->
                IF "address" \in DOMAIN section
                THEN Kasa(section["address"])
                ELSE ConfigurationError(MissingKeyMsg("address", pduname))
          [] OTHER -> ConfigurationError(UnknownTypeMsg(pduname, ty))

\* a resolver that looks the section up before it tries the URI
config_to_power_outlet_section_first(c) ==
    IF s_device_under_test \notin DOMAIN c
       \/ "power_outlet" \notin DOMAIN c[s_device_under_test]
    THEN [result |-> _NoOutlet, lookups |-> <<s_device_under_test>>]
    ELSE
    LET pduname == c[s_device_under_test]["power_outlet"]
        looked == <<s_device_under_test, SectionName(pduname)>>
    IN  IF SectionName(pduname) \in DOMAIN c
        THEN [result |-> FromSection(c[SectionName(pduname)], pduname),
              lookups |-> looked]
        ELSE [result |-> uri_to_power_outlet(pduname), lookups |-> looked]

\* the result (a backend or the exception that comes out) and the sections
\* looked up on the way, in order
config_to_power_outlet(c) ==
    IF s_device_under_test \notin DOMAIN c
       \/ "power_outlet" \notin DOMAIN c[s_device_under_test]
    THEN [result |-> _NoOutlet, lookups |-> <<s_device_under_test>>]
    ELSE
    LET pduname == c[s_device_under_test]["power_outlet"]
        byUri == uri_to_power_outlet(pduname)
        looked == <<s_device_under_test, SectionName(pduname)>>
    IN  IF byUri.cls # "ConfigurationError"
        THEN [result |-> byUri, lookups |-> <<s_device_under_test>>]
        ELSE IF SectionName(pduname) \notin DOMAIN c
        THEN [result |-> ConfigurationError(NoSectionMsg(pduname)),
              lookups |-> looked]
        ELSE [result |-> FromSection(c[SectionName(pduname)], pduname),
              lookups |-> looked]

-----------------------------------------------------------------------------
(* SpecConfig: config_to_power_outlet applied to one config.                *)

PduNames ==
    {s_none, s_file \o Colon \o <<"f">>,
     s_aten \o Colon \o <<"h","1">> \o Colon \o <<"x">>,
     s_kasa \o <<"2">>, <<"n","o","n","e","2">>, <<"m","y">>, <<"l","a","b">>}

TypeValues ==
    {s_none, s_file, <<"F","i","l","e">>, s_aten, <<"A","T","E","N">>,
     s_rittal_snmp, s_aviosys_8800_pro, s_kasa, <<"K","a","s","a">>,
     s_rittal, <<"a","p","c">>}

KeyValues ==
    [filename |-> <<"f","2">>, address |-> <<"h","1">>, outlet |-> <<"3">>,
     community |-> <<"c">>]

\* the sections a config file can hold under one name
SectionDicts ==
    {[k \in ks |-> KeyValues[k]] : ks \in SUBSET DOMAIN KeyValues}
    \cup {("type" :> t) @@ [k \in ks |-> KeyValues[k]] :
             t \in TypeValues, ks \in SUBSET DOMAIN KeyValues}

\* the device_under_test section
DutSections ==
    {<<>>} \cup {("power_outlet" :> n) : n \in PduNames}
    \cup {("power_outlet" :> n) @@ ("other" :> <<"v">>) : n \in {<<"m","y">>}}

ConfigInputs ==
    {<<>>}
    \cup {(s_device_under_test :> d) : d \in DutSections}
    \cup {(s_device_under_test :> d) @@ (SectionName(d["power_outlet"]) :> sec) :
             d \in DutSections \ {<<>>}, sec \in SectionDicts}
    \cup {(s_device_under_test :> d) @@ ((<<"pdu.">> \o d["power_outlet"]) :> sec) :
             d \in DutSections \ {<<>>}, sec \in {("type" :> s_none)}}
    \cup {(SectionName(n) :> sec) : n \in {<<"m","y">>}, sec \in {("type" :> s_kasa)}}

InitConfig ==
    /\ config \in ConfigInputs
    /\ cfg_result = NotCalled
    /\ cfg_lookups = <<>>
    /\ IdleUri /\ IdleSnmp /\ IdleAten /\ IdleAv /\ IdleFile

ResolveConfig ==
    /\ cfg_result = NotCalled
    /\ LET r == config_to_power_outlet(config)
       IN  cfg_result' = r.result /\ cfg_lookups' = r.lookups
    /\ UNCHANGED <<config, uriVars, snmpVars, atenVars, avVars, fileVars>>

NextConfig == ResolveConfig

SpecConfig == InitConfig /\ [][NextConfig]_vars

-----------------------------------------------------------------------------
(* The claims about config_to_power_outlet.                                 *)

HasKey(c) ==
    /\ s_device_under_test \in DOMAIN c
    /\ "power_outlet" \in DOMAIN c[s_device_under_test]
PduName(c) == c[s_device_under_test]["power_outlet"]
\* the URI resolver rejects the value with ConfigurationError
NotUri(c) == uri_to_power_outlet(PduName(c)).cls = "ConfigurationError"
\* the URI resolver returns a backend for the value
AcceptedUri(c) == uri_to_power_outlet(PduName(c)).cls \notin Errors
HasSection(c) == SectionName(PduName(c)) \in DOMAIN c
Section(c) == c[SectionName(PduName(c))]
SectionLookedUp == \E i \in DOMAIN cfg_lookups : cfg_lookups[i] # s_device_under_test

\* x stands in msg, as it is
Contains(msg, x) ==
    \E i \in 1..(Len(msg) - Len(x) + 1) : SubSeq(msg, i, i + Len(x) - 1) = x

KnownTypes ==
    {s_none, s_file, s_aten, s_rittal_snmp, s_aviosys_8800_pro, s_kasa}
RequiredKeys(ty) ==
    CASE ty = s_file -> {"filename"}
      [] ty = s_aten -> {"address", "outlet"}
      [] ty = s_rittal_snmp -> {"address", "outlet", "community"}
      [] ty = s_kasa -> {"address"}
      [] OTHER -> {}

\* an identifier that is no URI, and its section is there
InSection(c) == HasKey(c) /\ NotUri(c) /\ HasSection(c)
TypeOf(c) == LowerStr(Section(c)["type"])
GoodSection(c) ==
    /\ InSection(c)
    /\ "type" \in DOMAIN Section(c)
    /\ TypeOf(c) \in KnownTypes
    /\ RequiredKeys(TypeOf(c)) \subseteq DOMAIN Section(c)

(* C3: a section of each of the six types, with the keys its type needs,    *)
(* gives the backend of that type, built from the section's values.         *)
C3_EveryTypeBuilds ==
    (cfg_result # NotCalled /\ GoodSection(config)) =>
        LET sec == Section(config)
            ty == TypeOf(config)
        IN  CASE ty = s_none -> cfg_result = [cls |-> "NoOutlet"]
              [] ty = s_file ->
                    cfg_result = [cls |-> "FileOutlet", filename |-> sec["filename"]]
              [] ty = s_aten ->
                    /\ cfg_result.cls = "ATEN_PE6108G"
                    /\ cfg_result.snmp.host = sec["address"]
                    /\ cfg_result.snmp.oid.last = Number(sec["outlet"]) + 1
              [] ty = s_rittal_snmp ->
                    /\ cfg_result.cls = "RittalSnmpPower"
                    /\ cfg_result.snmp.host = sec["address"]
                    /\ cfg_result.snmp.community = sec["community"]
                    /\ cfg_result.snmp.oid.last = 52 + 7 * (Number(sec["outlet"]) - 1)
              [] ty = s_aviosys_8800_pro ->
                    /\ cfg_result.cls = "Aviosys8800Pro"
                    /\ cfg_result.device =
                          (IF "filename" \in DOMAIN sec THEN sec["filename"]
                           ELSE s_dev_ttyACM0)
              [] ty = s_kasa ->
                    cfg_result = [cls |-> "Kasa", hostname |-> sec["address"]]

(* C4: no power_outlet key gives NoOutlet; a value the URI resolver accepts *)
(* gives the URI resolver's backend, whatever sections there are, and no    *)
(* section is looked up; a section is looked up only when the URI resolver  *)
(* rejected the value with ConfigurationError.                              *)
C4_UriBeforeSection ==
    cfg_result # NotCalled =>
        /\ ~HasKey(config) => cfg_result = [cls |-> "NoOutlet"]
        /\ (HasKey(config) /\ AcceptedUri(config)) =>
              /\ cfg_result = uri_to_power_outlet(PduName(config))
              /\ ~SectionLookedUp
        /\ SectionLookedUp => (HasKey(config) /\ NotUri(config))

\* a URI value whose own section exists and names another backend
C4_Witness ==
    /\ cfg_result = [cls |-> "FileOutlet", filename |-> <<"f">>]
    /\ HasKey(config) /\ HasSection(config)
    /\ "type" \in DOMAIN Section(config) /\ Section(config)["type"] = s_kasa
    /\ "address" \in DOMAIN Section(config)

(* C5: in an existing section a bad type gives a ConfigurationError naming  *)
(* the identifier and the type, and a missing required key (or a missing    *)
(* type key) a ConfigurationError naming the key and the section; no other  *)
(* kind of error comes out.                                                 *)
C5_BadSectionIsConfigurationError ==
    (cfg_result # NotCalled /\ InSection(config)) =>
        LET sec == Section(config)
            n == PduName(config)
        IN  /\ "type" \notin DOMAIN sec =>
                  /\ cfg_result.cls = "ConfigurationError"
                  /\ Contains(cfg_result.msg, <<"type">>)
                  /\ Contains(cfg_result.msg, SectionName(n))
            /\ ("type" \in DOMAIN sec /\ TypeOf(config) \notin KnownTypes) =>
                  /\ cfg_result.cls = "ConfigurationError"
                  /\ Contains(cfg_result.msg, n)
                  /\ Contains(cfg_result.msg, TypeOf(config))
            /\ ("type" \in DOMAIN sec /\ TypeOf(config) \in KnownTypes
                  /\ ~(RequiredKeys(TypeOf(config)) \subseteq DOMAIN sec)) =>
                  /\ cfg_result.cls = "ConfigurationError"
                  /\ \E k \in RequiredKeys(TypeOf(config)) \ DOMAIN sec :
                        Contains(cfg_result.msg, <<k>>)
                  /\ Contains(cfg_result.msg, SectionName(n))

(* C6: an identifier that is no URI and has no section gives a              *)
(* ConfigurationError whose message holds the identifier and the name of    *)
(* the section that was looked up, 'power_outlet <identifier>'.             *)
C6_MessageNamesTheSection ==
    (cfg_result # NotCalled /\ HasKey(config) /\ NotUri(config)
        /\ ~HasSection(config)) =>
        /\ cfg_result.cls = "ConfigurationError"
        /\ Contains(cfg_result.msg, PduName(config))
        /\ cfg_lookups[Len(cfg_lookups)] = SectionName(PduName(config))
        /\ Contains(cfg_result.msg, cfg_lookups[Len(cfg_lookups)])

-----------------------------------------------------------------------------
(* SpecSnmp: _SnmpInteger.__init__ applied to one address.                  *)

AddrChars == {"h", ".", ":", "1", "6"}

RECURSIVE StringsOf(_, _)
\* the strings over chars of length n
StringsOf(chars, n) ==
    IF n = 0 THEN {<<>>}
    ELSE {Append(x, c) : x \in StringsOf(chars, n - 1), c \in chars}

AddrInputs == UNION {StringsOf(AddrChars, n) : n \in 0..MaxAddrLen}

InitSnmp ==
    /\ address \in AddrInputs
    /\ target = NotCalled
    /\ IdleUri /\ IdleCfg /\ IdleAten /\ IdleAv /\ IdleFile

ConstructSnmp ==
    /\ target = NotCalled
    /\ target' = _SnmpInteger(address, "1.3.6.1", <<"c">>)
    /\ UNCHANGED <<address, uriVars, cfgVars, atenVars, avVars, fileVars>>

NextSnmp == ConstructSnmp

SpecSnmp == InitSnmp /\ [][NextSnmp]_vars

AllDigits(x) == x # <<>> /\ \A i \in 1..Len(x) : IsDigit(x[i])
NoColon(x) == \A i \in 1..Len(x) : x[i] # ":"

(* C10: a host alone is targeted on port 161, and '<host>:<port>' is        *)
(* targeted as <host> on the numeric port <port>; the construction fails    *)
(* for neither.                                                             *)
C10_AddressTargetsEndpoint ==
    target # NotCalled =>
        /\ (address # <<>> /\ NoColon(address)) =>
              /\ target.cls = "SnmpInteger"
              /\ target.host = address /\ target.port = 161
        /\ (NParts(address) = 2 /\ Part(address, 1) # <<>>
              /\ AllDigits(Part(address, 2))) =>
              /\ target.cls = "SnmpInteger"
              /\ target.host = Part(address, 1)
              /\ target.port = DigitsVal(Part(address, 2))

-----------------------------------------------------------------------------
(* SpecAten: one call of _ATEN_PE6108G.set against an SNMP agent that       *)
(* answers as it likes.  Each SNMP exchange is one step.                    *)

\* range(12)
PollLimit == 12
\* the raw states the agent reports: 1 off, 2 on, 3 moving between states
RawValues == {1, 2, 3}
\* 2 if power else 1
SetValue(p) == IF p THEN 2 ELSE 1
\* "Timeout waiting for outlet to power {}".format("ON" if power else "OFF")
Timeout(p) == IF p THEN "Timeout ON" ELSE "Timeout OFF"

InitAten ==
    /\ IdleAten
    /\ IdleUri /\ IdleCfg /\ IdleSnmp /\ IdleAv /\ IdleFile

\* new_state = self._snmp.set(2 if power else 1): the agent's answer is kept
AtenSet(p, echo) ==
    /\ aten_pc = "idle"
    /\ power' = p
    /\ sets' = sets + 1
    /\ new_state' = echo
    /\ aten_pc' = "polling"
    /\ UNCHANGED <<polls, last_get, aten_result>>
    /\ UNCHANGED <<uriVars, cfgVars, snmpVars, avVars, fileVars>>

\* _cmd raises RuntimeError on the SET
AtenSetFails(p) ==
    /\ aten_pc = "idle"
    /\ power' = p
    /\ sets' = sets + 1
    /\ aten_pc' = "done"
    /\ aten_result' = "SnmpError"
    /\ UNCHANGED <<new_state, polls, last_get>>
    /\ UNCHANGED <<uriVars, cfgVars, snmpVars, avVars, fileVars>>

\* self._snmp.get() == new_state
PollMatches(v) == v = new_state

\* one turn of the loop: sleep, GET, compare; the 12th turn that does not
\* match falls out of the loop into the raise
AtenPoll(v) ==
    /\ aten_pc = "polling"
    /\ polls < PollLimit
    /\ polls' = polls + 1
    /\ last_get' = v
    /\ IF PollMatches(v)
       THEN aten_pc' = "done" /\ aten_result' = "ok"
       ELSE IF polls + 1 = PollLimit
       THEN aten_pc' = "done" /\ aten_result' = Timeout(power)
       ELSE UNCHANGED <<aten_pc, aten_result>>
    /\ UNCHANGED <<power, new_state, sets>>
    /\ UNCHANGED <<uriVars, cfgVars, snmpVars, avVars, fileVars>>

\* _cmd raises RuntimeError on a GET
AtenPollFails ==
    /\ aten_pc = "polling"
    /\ polls < PollLimit
    /\ polls' = polls + 1
    /\ aten_pc' = "done"
    /\ aten_result' = "SnmpError"
    /\ UNCHANGED <<power, new_state, sets, last_get>>
    /\ UNCHANGED <<uriVars, cfgVars, snmpVars, avVars, fileVars>>

NextAten ==
    \/ \E p \in BOOLEAN, echo \in RawValues : AtenSet(p, echo)
    \/ \E p \in BOOLEAN : AtenSetFails(p)
    \/ \E v \in RawValues : AtenPoll(v)
    \/ AtenPollFails

SpecAten == InitAten /\ [][NextAten]_vars

(* C7: one SET, at most 12 polls; set() returns only at a poll that reports *)
(* the value just set (2 for on, 1 for off), whatever the SET response      *)
(* held, and a call whose polls end without that value ends in the timeout  *)
(* error naming the direction.                                              *)
C7_SetConfirmsRequestedValue ==
    /\ sets <= 1 /\ polls <= PollLimit
    /\ aten_result = "ok" => (polls >= 1 /\ last_get = SetValue(power))
    /\ (aten_pc = "done" /\ aten_result # "SnmpError"
          /\ last_get # SetValue(power)) =>
          (aten_result = Timeout(power) /\ polls = PollLimit)

-----------------------------------------------------------------------------
(* _FakeAviosys8800ProSerial and _Aviosys8800Pro.  The fake is the record   *)
(* [is_on, inbuf, outbuf] (its `remainder` is never used).                  *)

s_p1eq == <<"p","1","=">>
s_readio == <<"r","e","a","d","i","o">>
s_crlf == <<"\r","\n">>
s_prompt == <<"z",">">>
s_IO == <<"I","O",":">>

StartsWith(x, prefix) ==
    Len(x) >= Len(prefix) /\ SubSeq(x, 1, Len(prefix)) = prefix

RECURSIVE FakeProcess(_)
\* the while loop of write: one line of inbuf at a time
FakeProcess(st) ==
    LET idx == Find(st.inbuf, <<"\n">>, 1)
        line == SubSeq(st.inbuf, 1, idx - 1)
        on == IF Len(line) >= 4 /\ SubSeq(line, 1, 3) = s_p1eq
              THEN IF line[4] = "0" THEN FALSE
                   ELSE IF line[4] = "1" THEN TRUE
                   ELSE st.is_on
              ELSE st.is_on
        answer == IF StartsWith(line, s_readio)
                  THEN s_IO \o <<IF on THEN "5" ELSE "0">> \o s_crlf
                  ELSE <<>>
    IN  IF idx = 0 THEN st
        ELSE FakeProcess([is_on |-> on,
                          inbuf |-> SubSeq(st.inbuf, idx + 1, Len(st.inbuf)),
                          outbuf |-> st.outbuf \o line \o s_crlf \o answer
                                     \o s_prompt])

\* _FakeAviosys8800ProSerial.write
_FakeAviosys8800ProSerial_write(st, data) == FakeProcess([st EXCEPT !.inbuf = st.inbuf \o data])

\* _FakeAviosys8800ProSerial.readline: the line, or the failed assertion
_FakeAviosys8800ProSerial_readline(st) ==
    LET idx == Find(st.outbuf, <<"\n">>, 1)
    IN  IF idx = 0 THEN [st |-> st, out |-> <<>>, err |-> TRUE]
        ELSE [st |-> [st EXCEPT !.outbuf = SubSeq(st.outbuf, idx + 1, Len(st.outbuf))],
              out |-> SubSeq(st.outbuf, 1, idx),
              err |-> FALSE]

\* "p1=%i\n" % power
SetCommand(p) == s_p1eq \o <<IF p THEN "1" ELSE "0">> \o <<"\n">>

\* _Aviosys8800Pro.set: the device after the call and what the call gave
_Aviosys8800Pro_set(st, p) ==
    LET r == _FakeAviosys8800ProSerial_readline(_FakeAviosys8800ProSerial_write(st, SetCommand(p)))
    IN  [st |-> r.st, ret |-> IF r.err THEN "AssertionError" ELSE "None"]

\* a get that reads the answer where the echo is
_Aviosys8800Pro_get_one_line(st) ==
    LET r == _FakeAviosys8800ProSerial_readline(_FakeAviosys8800ProSerial_write(st, s_readio \o <<"\n">>))
    IN  [st |-> r.st,
         ret |-> IF r.err THEN "AssertionError"
                 ELSE IF r.out = s_IO \o <<"5">> \o s_crlf THEN "True"
                 ELSE IF r.out = s_IO \o <<"0">> \o s_crlf THEN "False"
                 ELSE "RuntimeError"]

\* _Aviosys8800Pro.get
_Aviosys8800Pro_get(st) ==
    LET r1 == _FakeAviosys8800ProSerial_readline(_FakeAviosys8800ProSerial_write(st, s_readio \o <<"\n">>))
        r2 == _FakeAviosys8800ProSerial_readline(r1.st)
    IN  IF r1.err THEN [st |-> r1.st, ret |-> "AssertionError"]
        ELSE [st |-> r2.st,
              ret |-> IF r2.err THEN "AssertionError"
                      ELSE IF r2.out = s_IO \o <<"5">> \o s_crlf THEN "True"
                      ELSE IF r2.out = s_IO \o <<"0">> \o s_crlf THEN "False"
                      ELSE "RuntimeError"]

Fake == [is_on |-> is_on, inbuf |-> inbuf, outbuf |-> outbuf]

InitAviosys ==
    /\ IdleAv
    /\ IdleUri /\ IdleCfg /\ IdleSnmp /\ IdleAten /\ IdleFile

AvSet(p) ==
    /\ Len(av_hist) < MaxCalls
    /\ LET r == _Aviosys8800Pro_set(Fake, p)
       IN  /\ is_on' = r.st.is_on /\ inbuf' = r.st.inbuf /\ outbuf' = r.st.outbuf
           /\ av_ret' = r.ret
    /\ av_hist' = Append(av_hist, IF p THEN "set(True)" ELSE "set(False)")
    /\ UNCHANGED <<uriVars, cfgVars, snmpVars, atenVars, fileVars>>

AvGet ==
    /\ Len(av_hist) < MaxCalls
    /\ LET r == _Aviosys8800Pro_get(Fake)
       IN  /\ is_on' = r.st.is_on /\ inbuf' = r.st.inbuf /\ outbuf' = r.st.outbuf
           /\ av_ret' = r.ret
    /\ av_hist' = Append(av_hist, "get()")
    /\ UNCHANGED <<uriVars, cfgVars, snmpVars, atenVars, fileVars>>

NextAviosys ==
    \/ \E p \in BOOLEAN : AvSet(p)
    \/ AvGet

SpecAviosys == InitAviosys /\ [][NextAviosys]_vars

\* the argument of the last set of a history, `none` if it holds no set
RECURSIVE LastSet(_, _)
LastSet(hist, none) ==
    IF hist = <<>> THEN none
    ELSE IF hist[Len(hist)] = "set(True)" THEN "True"
    ELSE IF hist[Len(hist)] = "set(False)" THEN "False"
    ELSE LastSet(SubSeq(hist, 1, Len(hist) - 1), none)

LastCall(hist) == IF hist = <<>> THEN "none" ELSE hist[Len(hist)]

(* C8: over a fresh fake, after any sequence of set(True)/set(False)/get()  *)
(* no call has hit the fake's "would have blocked" assertion or a protocol  *)
(* error, a get() has returned the value of the most recent set (False if   *)
(* none), is_on is that value, and the fake's pending output holds no       *)
(* complete line: it is the 'z>' prompt alone (nothing before the first     *)
(* call), and nothing written is left unprocessed.                          *)
C8_AdapterAndFakeInStep ==
    /\ av_ret \notin {"AssertionError", "RuntimeError"}
    /\ LastCall(av_hist) = "get()" => av_ret = LastSet(av_hist, "False")
    /\ LastCall(av_hist) \in {"set(True)", "set(False)"} => av_ret = "None"
    /\ is_on = (LastSet(av_hist, "False") = "True")
    /\ \A i \in 1..Len(outbuf) : outbuf[i] # "\n"
    /\ outbuf = (IF av_hist = <<>> THEN <<>> ELSE s_prompt)
    /\ inbuf = <<>>

\* the doctest's run: on, read, off, read
C8_Witness ==
    /\ av_hist = <<"set(True)", "get()", "set(False)", "get()">>
    /\ av_ret = "False" /\ is_on = FALSE /\ outbuf = s_prompt

-----------------------------------------------------------------------------
(* _FileOutlet on one path.  The file is None (it does not exist) or its    *)
(* bytes.                                                                   *)

\* f.read(n): the first n bytes, fewer at the end of the file
Read(f, n) == SubSeq(f, 1, IF n <= Len(f) THEN n ELSE Len(f))

\* open(filename, 'wb'); f.write([b'0', b'1'][power])
_FileOutlet_set(f, p) == [file |-> <<IF p THEN "1" ELSE "0">>, ret |-> "None"]

\* a get that forgets int(): bool(f.read(1))
_FileOutlet_get_no_int(f) ==
    IF f = None THEN [file |-> f, ret |-> "True"]
    ELSE [file |-> f, ret |-> IF Read(f, 1) # <<>> THEN "True" ELSE "False"]

\* bool(int(f.read(1))), True on ENOENT; open(.., 'rb') leaves the file as
\* it is
_FileOutlet_get(f) ==
    IF f = None THEN [file |-> f, ret |-> "True"]
    ELSE LET n == ParseInt(Read(f, 1))
         IN  [file |-> f,
              ret |-> IF ~n.ok THEN "ValueError"
                      ELSE IF n.val # 0 THEN "True" ELSE "False"]

\* what the path holds before the outlet is used
FileInputs == {None, <<>>, <<"0">>, <<"1">>, <<"7","\n">>, <<"x">>}

InitFile ==
    /\ file \in FileInputs
    /\ f_hist = <<>> /\ f_ret = "none"
    /\ IdleUri /\ IdleCfg /\ IdleSnmp /\ IdleAten /\ IdleAv

FileSet(p) ==
    /\ Len(f_hist) < MaxCalls
    /\ LET r == _FileOutlet_set(file, p)
       IN  file' = r.file /\ f_ret' = r.ret
    /\ f_hist' = Append(f_hist, IF p THEN "set(True)" ELSE "set(False)")
    /\ UNCHANGED <<uriVars, cfgVars, snmpVars, atenVars, avVars>>

FileGet ==
    /\ Len(f_hist) < MaxCalls
    /\ LET r == _FileOutlet_get(file)
       IN  file' = r.file /\ f_ret' = r.ret
    /\ f_hist' = Append(f_hist, "get()")
    /\ UNCHANGED <<uriVars, cfgVars, snmpVars, atenVars, avVars>>

NextFile ==
    \/ \E p \in BOOLEAN : FileSet(p)
    \/ FileGet

SpecFile == InitFile /\ [][NextFile]_vars

\* what C9 says of a state
C9_State ==
    /\ (LastCall(f_hist) = "get()" /\ LastSet(f_hist, "none") # "none") =>
          f_ret = LastSet(f_hist, "none")
    /\ (LastCall(f_hist) = "get()" /\ file = None) => f_ret = "True"
    /\ LastSet(f_hist, "none") = "True" => file = <<"1">>
    /\ LastSet(f_hist, "none") = "False" => file = <<"0">>

(* C9: a get() returns the argument of the most recent set, and True when   *)
(* the file does not exist; after a set the file is the one byte '1' or     *)
(* '0'; and a get() leaves the file as it was, absent or not.               *)
C9_FileOutletRoundTrip ==
    /\ []C9_State
    /\ [][f_hist' = Append(f_hist, "get()") => file' = file]_vars

\* off, read, on, read
C9_Witness ==
    /\ f_hist = <<"set(False)", "get()", "set(True)", "get()">>
    /\ f_ret = "True" /\ file = <<"1">>

=============================================================================
